---- MODULE Spec2Model ----
(***************************************************************************)
(* A model of the yolo-tiling utilities:                                   *)
(*   create_projection_files.py  - per-tile .aux.xml sidecars obtained by  *)
(*                                 shifting a reference GeoTransform        *)
(*   vis_yolo_annotation.py      - YOLO label lines to pixel rectangles     *)
(*                                                                         *)
(* Text is a sequence of one-character strings.  Optional values are sets  *)
(* with at most one element: None is {} and a value v is {v}.  Floating    *)
(* point numbers are modelled by integers (exact arithmetic).              *)
(***************************************************************************)
EXTENDS Integers, Sequences, FiniteSets, TLC

\* ------------------------------------------------------------------------
\* Text helpers (Python str methods used by the scripts)
\* ------------------------------------------------------------------------

None == {}

Some(v) == {v}

The(opt) == CHOOSE v \in opt : TRUE

NL == "\n"

Digits == <<"0", "1", "2", "3", "4", "5", "6", "7", "8", "9">>

IsDigit(c) == \E i \in 1..Len(Digits) : Digits[i] = c

DigitVal(c) == (CHOOSE i \in 1..Len(Digits) : Digits[i] = c) - 1

IsHex(c) == IsDigit(c) \/ c \in {"a", "b", "c", "d", "e", "f", "A", "B", "C", "D", "E", "F"}

IsSpace(c) == c \in {" ", NL}

\* str.lower() on one character (the letters used in the model's names)
LowerChar(c) ==
    CASE c = "A" -> "a" [] c = "B" -> "b" [] c = "E" -> "e" [] c = "G" -> "g"
      [] c = "J" -> "j" [] c = "P" -> "p" [] c = "X" -> "x"
      [] OTHER -> c

Lower(s) == [i \in 1..Len(s) |-> LowerChar(s[i])]

\* s[i:j] for 1-based inclusive positions, empty when j < i
Slice(s, i, j) == IF j < i THEN <<>> ELSE SubSeq(s, i, j)

AllDigits(s, i, j) == i <= j /\ \A k \in i..j : IsDigit(s[k])

\* str.startswith
StartsWith(s, p) == Len(p) <= Len(s) /\ SubSeq(s, 1, Len(p)) = p

\* the text `lit` stands at position i of s, letter case ignored
LitAtCI(s, i, lit) ==
    /\ i >= 1
    /\ i + Len(lit) - 1 <= Len(s)
    /\ Lower(SubSeq(s, i, i + Len(lit) - 1)) = Lower(lit)

\* `sub in s`
Contains(s, sub) == \E i \in 1..(Len(s) - Len(sub) + 1) : SubSeq(s, i, i + Len(sub) - 1) = sub

\* int() of a string of decimal digits
RECURSIVE IntOfDigits(_)
IntOfDigits(s) ==
    IF Len(s) = 0 THEN 0
    ELSE 10 * IntOfDigits(SubSeq(s, 1, Len(s) - 1)) + DigitVal(s[Len(s)])

Min(S) == CHOOSE m \in S : \A x \in S : m <= x

Max(S) == CHOOSE m \in S : \A x \in S : x <= m

\* ------------------------------------------------------------------------
\* Filename parsing
\* ------------------------------------------------------------------------

\* LEADING_WEIRD = ^[0-9a-fA-F]{8}-   and   normalize_stem
LEADING_WEIRD(stem) ==
    /\ Len(stem) >= 9
    /\ \A i \in 1..8 : IsHex(stem[i])
    /\ stem[9] = "-"

normalize_stem(stem) == IF LEADING_WEIRD(stem) THEN Slice(stem, 10, Len(stem)) ELSE stem

\* The positions (counted as the number of characters before them) at which
\* the regex anchor $ matches: the end of the text, and just before a newline
\* that is the last character.
DollarAnchors(s) ==
    {Len(s)} \cup (IF Len(s) > 0 /\ s[Len(s)] = NL THEN {Len(s) - 1} ELSE {})

\* All matches <<p, q, e>> of LAST_TWO = _(\d+)_(\d+)$ in stem: "_" at p,
\* digits p+1..q-1, "_" at q, digits q+1..e, and $ after e.
LAST_TWO(stem) ==
    UNION {UNION {{<<p, q, e>> : e \in {e \in DollarAnchors(stem) : AllDigits(stem, q + 1, e)}} :
                  q \in {q \in (p + 2)..Len(stem) :
                            stem[q] = "_" /\ AllDigits(stem, p + 1, q - 1)}} :
           p \in {p \in 1..Len(stem) : stem[p] = "_"}}

\* parse_last_two: the leftmost match of LAST_TWO, groups a and b as integers
parse_last_two(stem) ==
    LET ms == LAST_TWO(stem) IN
    IF ms = {} THEN None
    ELSE LET p == Min({m[1] : m \in ms})
             m == CHOOSE x \in ms : x[1] = p
         IN  Some(<<IntOfDigits(Slice(stem, m[1] + 1, m[2] - 1)),
                    IntOfDigits(Slice(stem, m[2] + 1, m[3]))>>)

\* "." does not match a newline: s[st..i-1] is a non-empty run of other characters
DotPlus(s, st, i) == st < i /\ \A k \in st..(i - 1) : s[k] # NL

ExtAlternatives == << <<"j", "p", "g">>, <<"j", "p", "e", "g">> >>

\* All matches <<st, i, x, fe>> of
\*   REF_FROM_TILE = (?P<base>.+?)\.(jpg|jpeg)_(?P<frame>\d+)_   (IGNORECASE)
\* base = s[st..i-1], "." at i, alternative x of the extension, "_", the frame
\* digits up to fe, "_".
REF_FROM_TILE(s) ==
    UNION {UNION {{<<st, i, x, fe>> :
                      st \in {st \in 1..(i - 1) : DotPlus(s, st, i)},
                      fe \in {fe \in (i + 2 + Len(ExtAlternatives[x]))..(Len(s) - 1) :
                                /\ s[i + 1 + Len(ExtAlternatives[x])] = "_"
                                /\ AllDigits(s, i + 2 + Len(ExtAlternatives[x]), fe)
                                /\ s[fe + 1] = "_"}} :
                  x \in {x \in 1..Len(ExtAlternatives) :
                            LitAtCI(s, i, <<".">> \o ExtAlternatives[x])}} :
           i \in 1..Len(s)}

\* All matches <<st, i, x>> of the fallback (?P<base>.+?)\.(jpg|jpeg) (IGNORECASE)
REF_FALLBACK(s) ==
    UNION {UNION {{<<st, i, x>> : st \in {st \in 1..(i - 1) : DotPlus(s, st, i)}} :
                  x \in {x \in 1..Len(ExtAlternatives) :
                            LitAtCI(s, i, <<".">> \o ExtAlternatives[x])}} :
           i \in 1..Len(s)}

\* re.search: the leftmost start, then the shortest lazy base, then the first
\* alternative, then the longest greedy digit run.
SearchFirst(ms) ==
    LET st == Min({m[1] : m \in ms})
        i  == Min({m[2] : m \in {x \in ms : x[1] = st}})
        x  == Min({m[3] : m \in {y \in ms : y[1] = st /\ y[2] = i}})
    IN  CHOOSE m \in ms : m[1] = st /\ m[2] = i /\ m[3] = x
                          /\ \A o \in ms : (o[1] = st /\ o[2] = i /\ o[3] = x)
                                              => o[Len(o)] <= m[Len(m)]

extract_first_token_only(normalized_stem) ==
    LET m2s == REF_FALLBACK(normalized_stem) IN
    IF m2s = {} THEN None
    ELSE LET m2 == SearchFirst(m2s)
             u  == m2[2] + 1 + Len(ExtAlternatives[m2[3]])
             fe == {e \in u..Len(normalized_stem) :
                       /\ normalized_stem[u] = "_"
                       /\ AllDigits(normalized_stem, u + 1, e)
                       /\ e + 1 <= Len(normalized_stem) /\ normalized_stem[e + 1] = "_"}
         IN  Some(<<Slice(normalized_stem, m2[1], m2[2] - 1),
                    IF fe = {} THEN None
                    ELSE Some(Slice(normalized_stem, u + 1, Max(fe)))>>)

\* extract_ref_base_and_frame: (base, frame), (base, None) or None
extract_ref_base_and_frame(normalized_stem) ==
    LET ms == REF_FROM_TILE(normalized_stem) IN
    IF ms # {}
    THEN LET m == SearchFirst(ms)
             u == m[2] + 1 + Len(ExtAlternatives[m[3]])
         IN  Some(<<Slice(normalized_stem, m[1], m[2] - 1),
                    Some(Slice(normalized_stem, u + 1, m[4]))>>)
    ELSE LET m2s == REF_FALLBACK(normalized_stem) IN
         IF m2s = {} THEN None
         ELSE LET m2 == SearchFirst(m2s)
              IN  Some(<<Slice(normalized_stem, m2[1], m2[2] - 1), None>>)

\* ------------------------------------------------------------------------
\* Reference lookup.  A path is [dir, name]; ref_index is the dict of
\* build_ref_index in insertion order: a sequence of [key, path] with
\* distinct keys.
\* ------------------------------------------------------------------------

IndexKeys(ref_index) == {ref_index[i].key : i \in 1..Len(ref_index)}

\* dict.get(key)
IndexGet(ref_index, key) ==
    {ref_index[i].path : i \in {j \in 1..Len(ref_index) : ref_index[j].key = key}}

\* d[key] = path: a new key is appended, a known key keeps its place
IndexPut(ref_index, key, path) ==
    IF key \in IndexKeys(ref_index)
    THEN [i \in 1..Len(ref_index) |->
             IF ref_index[i].key = key THEN [key |-> key, path |-> path] ELSE ref_index[i]]
    ELSE Append(ref_index, [key |-> key, path |-> path])

\* build_ref_index over the glob's result (regular files matching *.jp*g)
RECURSIVE build_ref_index(_)
build_ref_index(listing) ==
    IF Len(listing) = 0 THEN <<>>
    ELSE LET p == listing[Len(listing)] IN
         IndexPut(build_ref_index(SubSeq(listing, 1, Len(listing) - 1)), Lower(p.name), p)

Candidates(base, frame) ==
    << base \o <<".", "j", "p", "g">>, base \o <<".", "j", "p", "e", "g">> >>
    \o (IF frame # None /\ The(frame) # <<>>
        THEN << base \o <<"_">> \o The(frame) \o <<".", "j", "p", "g">>,
                base \o <<"_">> \o The(frame) \o <<".", "j", "p", "e", "g">>,
                base \o <<"-">> \o The(frame) \o <<".", "j", "p", "g">>,
                base \o <<"-">> \o The(frame) \o <<".", "j", "p", "e", "g">> >>
        ELSE <<>>)

\* the fuzzy fallback of choose_reference: the first entry, in dict order,
\* among the shortest names that start with base and contain frame
FuzzyReference(ref_index, base, frame) ==
    LET base_l == Lower(base)
        ok(i)  == /\ StartsWith(ref_index[i].key, base_l)
                  /\ (frame # None /\ The(frame) # <<>>)
                        => Contains(ref_index[i].key, Lower(The(frame)))
        hits   == {i \in 1..Len(ref_index) : ok(i)}
    IN  IF hits = {} THEN None
        ELSE LET best_len == Min({Len(ref_index[i].key) : i \in hits})
             IN  Some(ref_index[Min({i \in hits : Len(ref_index[i].key) = best_len})].path)

choose_reference_exact_only(ref_index, base, frame) ==
    LET candidates == Candidates(base, frame)
        found == {i \in 1..Len(candidates) : IndexGet(ref_index, Lower(candidates[i])) # None}
    IN  IF found # {} THEN IndexGet(ref_index, Lower(candidates[Min(found)]))
        ELSE None

choose_reference(ref_index, base, frame) ==
    LET candidates == Candidates(base, frame)
        found == {i \in 1..Len(candidates) : IndexGet(ref_index, Lower(candidates[i])) # None}
    IN  IF found # {} THEN IndexGet(ref_index, Lower(candidates[Min(found)]))
        ELSE FuzzyReference(ref_index, base, frame)

\* ------------------------------------------------------------------------
\* GeoTransform text and arithmetic.  A transform is a 6-tuple
\* <<GT0, GT1, GT2, GT3, GT4, GT5>>.
\* ------------------------------------------------------------------------

\* the decimal digits of a natural number
RECURSIVE NatText(_)
NatText(n) ==
    IF n < 10 THEN <<Digits[n + 1]>>
    ELSE NatText(n \div 10) \o <<Digits[(n % 10) + 1]>>

\* f"{v:...e}": the text of one value
FormatValue(v) == IF v < 0 THEN <<"-">> \o NatText(-v) ELSE NatText(v)

\* ", ".join(parts)
RECURSIVE JoinCommaSpace(_)
JoinCommaSpace(parts) ==
    IF Len(parts) = 0 THEN <<>>
    ELSE IF Len(parts) = 1 THEN parts[1]
    ELSE parts[1] \o <<",", " ">> \o JoinCommaSpace(Tail(parts))

format_geotransform(gt) ==
    <<" ", " ">> \o JoinCommaSpace([i \in 1..Len(gt) |-> FormatValue(gt[i])])

\* str.strip()
RECURSIVE Strip(_)
Strip(s) ==
    IF Len(s) = 0 THEN s
    ELSE IF IsSpace(s[1]) THEN Strip(Tail(s))
    ELSE IF IsSpace(s[Len(s)]) THEN Strip(SubSeq(s, 1, Len(s) - 1))
    ELSE s

\* str.split(",")
RECURSIVE SplitComma(_)
SplitComma(s) ==
    LET commas == {i \in 1..Len(s) : s[i] = ","} IN
    IF commas = {} THEN <<s>>
    ELSE <<Slice(s, 1, Min(commas) - 1)>> \o SplitComma(Slice(s, Min(commas) + 1, Len(s)))

\* float(x) succeeds: an optional sign and digits
IsNumber(x) ==
    \/ AllDigits(x, 1, Len(x))
    \/ (Len(x) >= 2 /\ x[1] \in {"-", "+"} /\ AllDigits(x, 2, Len(x)))

\* float(x)
FloatOf(x) ==
    IF x[1] = "-" THEN 0 - IntOfDigits(Tail(x))
    ELSE IF x[1] = "+" THEN IntOfDigits(Tail(x))
    ELSE IntOfDigits(x)

\* parse_geotransform_text: Some(transform), or None for a ValueError
parse_geotransform_text(gt_text) ==
    LET spaced == [i \in 1..Len(gt_text) |-> IF gt_text[i] = NL THEN " " ELSE gt_text[i]]
        split  == SplitComma(spaced)
        parts  == [i \in 1..Len(split) |-> Strip(split[i])]
    IN  IF Len(parts) # 6 THEN None
        ELSE IF \E i \in 1..6 : ~IsNumber(parts[i]) THEN None
        ELSE Some([i \in 1..6 |-> FloatOf(parts[i])])

shifted_geotransform_axis_aligned(gt, col_off_px, row_off_px) ==
    <<gt[1] + col_off_px * gt[2], gt[2], gt[3],
      gt[4] + row_off_px * gt[6], gt[5], gt[6]>>

shifted_geotransform(gt, col_off_px, row_off_px) ==
    LET GT0 == gt[1]
        GT1 == gt[2]
        GT2 == gt[3]
        GT3 == gt[4]
        GT4 == gt[5]
        GT5 == gt[6]
        new_GT0 == GT0 + col_off_px * GT1 + row_off_px * GT2
        new_GT3 == GT3 + col_off_px * GT4 + row_off_px * GT5
    IN  <<new_GT0, GT1, GT2, new_GT3, GT4, GT5>>

\* ------------------------------------------------------------------------
\* XML.  An element tree is [tag, children], the root's tag and its child
\* elements in document order, each child [tag, text].  The serialised
\* document is the flat sequence <<root tag, tag1, text1, tag2, text2, ...>>;
\* the empty sequence is a document that does not parse.
\* ------------------------------------------------------------------------

\* ET.tostring(root) / ElementTree.write
tostring(tree) ==
    <<tree.tag>> \o
    [i \in 1..(2 * Len(tree.children)) |->
        IF i % 2 = 1 THEN tree.children[(i + 1) \div 2].tag
        ELSE tree.children[i \div 2].text]

\* ET.fromstring(text) / ET.parse(file) of a well-formed document
fromstring(doc) ==
    [tag |-> doc[1],
     children |-> [i \in 1..((Len(doc) - 1) \div 2) |->
                      [tag |-> doc[2 * i], text |-> doc[2 * i + 1]]]]

WellFormed(doc) == Len(doc) >= 1 /\ (Len(doc) - 1) % 2 = 0

\* root.find(tag): the position of the first child with that tag, or None
Find(tree, tag) ==
    LET hits == {i \in 1..Len(tree.children) : tree.children[i].tag = tag} IN
    IF hits = {} THEN None ELSE Some(Min(hits))

\* list.insert(idx, el) for a 0-based idx
InsertAt(seq, idx, el) == SubSeq(seq, 1, idx) \o <<el>> \o SubSeq(seq, idx + 1, Len(seq))

update_geotransform_append(aux_tree, new_gt) ==
    LET gt_el == Find(aux_tree, "GeoTransform")
        text  == format_geotransform(new_gt)
    IN  IF gt_el = None
        THEN [aux_tree EXCEPT !.children =
                 Append(@, [tag |-> "GeoTransform", text |-> text])]
        ELSE [aux_tree EXCEPT !.children[The(gt_el)].text = text]

\* update_geotransform_in_auxxml: the tree after the call
update_geotransform_in_auxxml(aux_tree, new_gt) ==
    LET gt_el == Find(aux_tree, "GeoTransform")
        text  == format_geotransform(new_gt)
    IN  IF gt_el = None
        THEN LET srs_el == Find(aux_tree, "SRS")
                 idx    == IF srs_el # None THEN (The(srs_el) - 1) + 1 ELSE 0
             IN  [aux_tree EXCEPT !.children =
                     InsertAt(@, idx, [tag |-> "GeoTransform", text |-> text])]
        ELSE [aux_tree EXCEPT !.children[The(gt_el)].text = text]

\* Lines 212-219: what reading a reference sidecar yields: Some([tree, gt]),
\* or None when one of the checks raises.
LoadReference(doc) ==
    IF ~WellFormed(doc) THEN None
    ELSE LET root  == fromstring(doc)
             gt_el == Find(root, "GeoTransform")
         IN  IF root.tag # "PAMDataset" THEN None
             ELSE IF gt_el = None THEN None
             ELSE IF Strip(root.children[The(gt_el)].text) = <<>> THEN None
             ELSE LET ref_gt == parse_geotransform_text(root.children[The(gt_el)].text)
                  IN  IF ref_gt = None THEN None
                      ELSE Some([tree |-> root, gt |-> The(ref_gt)])

\* ------------------------------------------------------------------------
\* The run of create_projection_files.main() from the tile loop on
\* ------------------------------------------------------------------------

VARIABLES
    pc,           \* main: "loop", "done" (summary printed), "aborted" (an
                  \* exception left main); a call of one function: "call",
                  \* "returned", "raised"
    exit_code,    \* None while running, else the process's exit code
    args,         \* [tile_size, stride, swap_rowcol]; stride is None or Some(n)
    ref_index,    \* the dict built by build_ref_index
    ref_files,    \* the file system under --refs: path -> [exists, doc] of
                  \* the path's .aux.xml
    tiles_dir,    \* the file system under --tiles: the set of entries matching
                  \* --tiles-glob, each [stem, is_file, opens, writable]
    tile_iter,    \* the entries the loop has not yet yielded
    tile_path,    \* the loop variable; the locals below keep their last binding
    last, tile_row, tile_col, base_frame, ref_jpg,
    processed, skipped, no_ref, bad_ref,
    ref_cache,    \* path -> [tree, gt], tree an object id
    heap,         \* the ElementTree objects: heap[id] is the tree of object id
    out_aux,      \* the sidecars written: tile -> serialised document
    used_ref,     \* for each sidecar written, the reference it was made from
    parse_count,  \* path -> how many times ET.parse read the path's .aux.xml
    xml_in, xml_out,                 \* a call of update_geotransform_in_auxxml
    label_file, img_size, boxes      \* a call of load_yolo_annotations

config == <<args, ref_index, ref_files, tiles_dir>>

counters == <<processed, skipped, no_ref, bad_ref>>

xml_vars == <<xml_in, xml_out>>

yolo_vars == <<label_file, img_size, boxes>>

main_vars == <<pc, exit_code, args, ref_index, ref_files, tiles_dir, tile_iter, tile_path,
               last, tile_row, tile_col, base_frame, ref_jpg,
               processed, skipped, no_ref, bad_ref,
               ref_cache, heap, out_aux, used_ref, parse_count>>

vars == <<main_vars, xml_vars, yolo_vars>>

\* line 154
Stride(a) == IF a.stride # None THEN The(a.stride) ELSE a.tile_size

\* one of "processed", "skipped", "no_ref", "bad_ref" is incremented
Count(c) ==
    /\ processed' = processed + (IF c = "processed" THEN 1 ELSE 0)
    /\ skipped' = skipped + (IF c = "skipped" THEN 1 ELSE 0)
    /\ no_ref' = no_ref + (IF c = "no_ref" THEN 1 ELSE 0)
    /\ bad_ref' = bad_ref + (IF c = "bad_ref" THEN 1 ELSE 0)

\* line 243: a new tree object equal to the template
CloneTree_alias(h, template) == [heap |-> h, id |-> template]

CloneTree(h, template) ==
    [heap |-> Append(h, fromstring(tostring(h[template]))), id |-> Len(h) + 1]

\* lines 202-225: the cache after looking up ref, [ok, ref_cache, heap, read]
EnsureCached(cache, h, path, file) ==
    IF path \in DOMAIN cache
    THEN [ok |-> TRUE, ref_cache |-> cache, heap |-> h, read |-> FALSE]
    ELSE LET loaded == LoadReference(file.doc) IN
         IF loaded = None
         THEN [ok |-> FALSE, ref_cache |-> cache, heap |-> h, read |-> TRUE]
         ELSE [ok |-> TRUE,
               ref_cache |-> [q \in DOMAIN cache \cup {path} |->
                                 IF q = path THEN [tree |-> Len(h) + 1, gt |-> The(loaded).gt]
                                 ELSE cache[q]],
               heap |-> Append(h, The(loaded).tree),
               read |-> TRUE]

\* One iteration of the loop of lines 173-252 for the entry t.
HandleTile(t) ==
    /\ pc = "loop"
    /\ t \in tile_iter
    /\ tile_iter' = tile_iter \ {t}
    /\ tile_path' = Some(t)
    /\ UNCHANGED <<config, xml_vars, yolo_vars>>
    /\ IF ~t.is_file
       THEN /\ Count("none")
            /\ UNCHANGED <<pc, exit_code, last, tile_row, tile_col, base_frame, ref_jpg,
                           ref_cache, heap, out_aux, used_ref, parse_count>>
       ELSE
       /\ last' = parse_last_two(t.stem)
       /\ IF last' = None
          THEN /\ Count("skipped")
               /\ UNCHANGED <<pc, exit_code, tile_row, tile_col, base_frame, ref_jpg,
                              ref_cache, heap, out_aux, used_ref, parse_count>>
          ELSE
          /\ tile_row' = Some(IF args.swap_rowcol THEN The(last')[2] ELSE The(last')[1])
          /\ tile_col' = Some(IF args.swap_rowcol THEN The(last')[1] ELSE The(last')[2])
          /\ base_frame' = extract_ref_base_and_frame(normalize_stem(t.stem))
          /\ IF base_frame' = None
             THEN /\ Count("skipped")
                  /\ UNCHANGED <<pc, exit_code, ref_jpg, ref_cache, heap,
                                 out_aux, used_ref, parse_count>>
             ELSE
             /\ ref_jpg' = choose_reference(ref_index, The(base_frame')[1], The(base_frame')[2])
             /\ IF ref_jpg' = None
                THEN /\ Count("no_ref")
                     /\ UNCHANGED <<pc, exit_code, ref_cache, heap,
                                    out_aux, used_ref, parse_count>>
                ELSE
                IF ~ref_files[The(ref_jpg')].exists
                THEN /\ Count("bad_ref")
                     /\ UNCHANGED <<pc, exit_code, ref_cache, heap,
                                    out_aux, used_ref, parse_count>>
                ELSE
                \E path \in ref_jpg' :
                \E c \in {EnsureCached(ref_cache, heap, path, ref_files[path])} :
                /\ parse_count' = [parse_count EXCEPT ![path] = @ + (IF c.read THEN 1 ELSE 0)]
                /\ ref_cache' = c.ref_cache
                /\ IF ~c.ok
                   THEN /\ Count("bad_ref")
                        /\ heap' = c.heap
                        /\ UNCHANGED <<pc, exit_code, out_aux, used_ref>>
                   ELSE
                   IF ~t.opens
                   THEN /\ Count("skipped")
                        /\ heap' = c.heap
                        /\ UNCHANGED <<pc, exit_code, out_aux, used_ref>>
                   ELSE
                   LET aux_tree_template == c.ref_cache[path].tree
                       ref_gt  == c.ref_cache[path].gt
                       row_off == The(tile_row') * Stride(args)
                       col_off == The(tile_col') * Stride(args)
                       tile_gt == shifted_geotransform(ref_gt, col_off, row_off)
                   IN
                   \E clone \in {CloneTree(c.heap, aux_tree_template)} :
                   \E aux_tree \in {update_geotransform_in_auxxml(clone.heap[clone.id], tile_gt)} :
                   /\ heap' = [clone.heap EXCEPT ![clone.id] = aux_tree]
                   /\ IF ~t.writable
                      THEN \* aux_tree.write raises: nothing catches it
                           /\ pc' = "aborted"
                           /\ exit_code' = Some(1)
                           /\ Count("none")
                           /\ UNCHANGED <<out_aux, used_ref>>
                      ELSE /\ out_aux' = (t :> tostring(heap'[clone.id])) @@ out_aux
                           /\ used_ref' = (t :> path) @@ used_ref
                           /\ Count("processed")
                           /\ UNCHANGED <<pc, exit_code>>

\* lines 254-260: the loop is exhausted, the summary is printed, main returns 0
Finish ==
    /\ pc = "loop"
    /\ tile_iter = {}
    /\ pc' = "done"
    /\ exit_code' = Some(0)
    /\ UNCHANGED <<config, tile_iter, tile_path, last, tile_row, tile_col, base_frame,
                   ref_jpg, counters, ref_cache, heap, out_aux, used_ref,
                   parse_count, xml_vars, yolo_vars>>

Next == (\E t \in tile_iter : HandleTile(t)) \/ Finish

\* ------------------------------------------------------------------------
\* A call of update_geotransform_in_auxxml on the tree and transform xml_in
\* ------------------------------------------------------------------------

UpdateXml ==
    /\ pc = "call"
    /\ xml_in # None
    /\ xml_out' = Some(update_geotransform_in_auxxml(The(xml_in).tree, The(xml_in).gt))
    /\ pc' = "returned"
    /\ UNCHANGED <<exit_code, config, tile_iter, tile_path, last, tile_row, tile_col,
                   base_frame, ref_jpg, counters, ref_cache, heap, out_aux, used_ref,
                   parse_count, xml_in, yolo_vars>>

NextXml == UpdateXml

\* ------------------------------------------------------------------------
\* vis_yolo_annotation.load_yolo_annotations.  A float is held as the
\* integer Fixed(x) = 2000 * x, which keeps every product and half below
\* exact for inputs with at most three decimals.
\* ------------------------------------------------------------------------

Fixed(n) == n * 2000

\* str.split(): the maximal runs of non-space characters
RECURSIVE SplitSpace(_)
SplitSpace(s) ==
    LET t == Strip(s) IN
    IF Len(t) = 0 THEN <<>>
    ELSE LET sp  == {i \in 1..Len(t) : IsSpace(t[i])}
             cut == IF sp = {} THEN Len(t) + 1 ELSE Min(sp)
         IN  <<Slice(t, 1, cut - 1)>> \o SplitSpace(Slice(t, cut + 1, Len(t)))

\* int(x) succeeds
IsIntText(x) == IsNumber(x)

\* float(x) succeeds: digits, optionally "." and up to three more digits
IsDecimalText(x) ==
    LET dots == {i \in 1..Len(x) : x[i] = "."} IN
    IF dots = {} THEN AllDigits(x, 1, Len(x))
    ELSE /\ Cardinality(dots) = 1
         /\ AllDigits(x, 1, Min(dots) - 1)
         /\ Len(x) - Min(dots) \in 1..3
         /\ AllDigits(x, Min(dots) + 1, Len(x))

\* float(x), as Fixed
DecimalOf(x) ==
    LET dots == {i \in 1..Len(x) : x[i] = "."} IN
    IF dots = {} THEN Fixed(IntOfDigits(x))
    ELSE LET d    == Min(dots)
             frac == Slice(x, d + 1, Len(x))
             pad  == frac \o [i \in 1..(3 - Len(frac)) |-> "0"]
         IN  Fixed(IntOfDigits(Slice(x, 1, d - 1))) + 2 * IntOfDigits(pad)

\* lines 34-46 for one line of five fields: (cls, x_min, y_min, box_w, box_h)
BoxOf_full_height(parts, img_width, img_height) ==
    LET cls == FloatOf(parts[1])
        xc  == DecimalOf(parts[2])
        yc  == DecimalOf(parts[3])
        w   == DecimalOf(parts[4])
        h   == DecimalOf(parts[5])
        x_center == xc * img_width
        y_center == yc * img_height
        box_w == w * img_width
        box_h == h * img_height
        x_min == x_center - box_w \div 2
        y_min == y_center - box_h
    IN  <<cls, x_min, y_min, box_w, box_h>>

BoxOf(parts, img_width, img_height) ==
    LET cls == FloatOf(parts[1])
        xc  == DecimalOf(parts[2])
        yc  == DecimalOf(parts[3])
        w   == DecimalOf(parts[4])
        h   == DecimalOf(parts[5])
        x_center == xc * img_width
        y_center == yc * img_height
        box_w == w * img_width
        box_h == h * img_height
        x_min == x_center - box_w \div 2
        y_min == y_center - box_h \div 2
    IN  <<cls, x_min, y_min, box_w, box_h>>

\* a line whose int() or float() raises ValueError
LineRaises(line) ==
    LET parts == SplitSpace(line) IN
    /\ Len(parts) = 5
    /\ (~IsIntText(parts[1]) \/ \E i \in 2..5 : ~IsDecimalText(parts[i]))

\* the boxes of the lines read without an exception
RECURSIVE BoxesOf(_, _, _)
BoxesOf(lines, img_width, img_height) ==
    IF Len(lines) = 0 THEN <<>>
    ELSE LET parts == SplitSpace(lines[1])
             rest  == BoxesOf(Tail(lines), img_width, img_height)
         IN  IF Len(parts) = 0 THEN rest
             ELSE IF Len(parts) # 5 THEN rest
             ELSE <<BoxOf(parts, img_width, img_height)>> \o rest

\* load_yolo_annotations(label_path, img_width, img_height); label_file is
\* None when label_path does not exist, else Some(the file's lines)
LoadYolo ==
    /\ pc = "call"
    /\ img_size # None
    /\ IF label_file = None
       THEN boxes' = <<>> /\ pc' = "returned"
       ELSE IF \E i \in 1..Len(The(label_file)) : LineRaises(The(label_file)[i])
       THEN LET k == Min({i \in 1..Len(The(label_file)) : LineRaises(The(label_file)[i])}) IN
            /\ boxes' = BoxesOf(SubSeq(The(label_file), 1, k - 1),
                                The(img_size)[1], The(img_size)[2])
            /\ pc' = "raised"
       ELSE /\ boxes' = BoxesOf(The(label_file), The(img_size)[1], The(img_size)[2])
            /\ pc' = "returned"
    /\ UNCHANGED <<exit_code, config, tile_iter, tile_path, last, tile_row, tile_col,
                   base_frame, ref_jpg, counters, ref_cache, heap, out_aux, used_ref,
                   parse_count, xml_vars, label_file, img_size>>

NextYolo == LoadYolo

\* ------------------------------------------------------------------------
\* Inputs
\* ------------------------------------------------------------------------

MaxTiles == 2

MaxRefs == 2

MaxChildren == 3

MaxLines == 2

\* all sequences over S of length at most n
RECURSIVE SeqsUpTo(_, _)
SeqsUpTo(S, n) ==
    IF n = 0 THEN {<<>>}
    ELSE LET shorter == SeqsUpTo(S, n - 1) IN
         shorter \cup {Append(q, x) : q \in shorter, x \in S}

Distinct(q) == \A i, j \in 1..Len(q) : i # j => q[i] # q[j]

JPG == <<".", "j", "p", "g">>

RefPath(name) == [dir |-> "refs", name |-> name]

Element(tag, text) == [tag |-> tag, text |-> text]

\* the GeoTransform texts of reference sidecars
GtPlain == format_geotransform(<<10, 2, -1, 20, 3, -2>>)

GtLines == <<"7", ",", NL, "+", "1", ",", "0", ",", " ", "-", "4", ",", "0", ",", NL, "-", "1", " ">>

GtFive == <<"1", ",", "2", ",", "3", ",", "4", ",", "5">>

GtWords == <<"1", ",", "2", ",", "3", ",", "4", ",", "5", ",", "x">>

DocOf(root_tag, children) == tostring([tag |-> root_tag, children |-> children])

GoodDocs ==
    {DocOf("PAMDataset", <<Element("SRS", <<"w">>), Element("GeoTransform", GtPlain),
                           Element("Metadata", <<"m">>)>>),
     DocOf("PAMDataset", <<Element("GeoTransform", GtLines), Element("Metadata", <<"m">>),
                           Element("GeoTransform", GtPlain)>>)}

BrokenDocs ==
    {<<>>,
     DocOf("Other", <<Element("GeoTransform", GtPlain)>>),
     DocOf("PAMDataset", <<Element("SRS", <<"w">>)>>),
     DocOf("PAMDataset", <<Element("GeoTransform", <<" ", NL>>)>>),
     DocOf("PAMDataset", <<Element("GeoTransform", GtFive)>>),
     DocOf("PAMDataset", <<Element("GeoTransform", GtWords)>>)}

ArgsSet ==
    [tile_size : {3}, stride : {None, Some(2)}, swap_rowcol : BOOLEAN]

Tile(stem, is_file, opens, writable) ==
    [stem |-> stem, is_file |-> is_file, opens |-> opens, writable |-> writable]

\* the state at the head of the tile loop (line 173) for given arguments,
\* references and tiles
InitMain(a, listing, files, dir) ==
    /\ pc = "loop"
    /\ exit_code = None
    /\ args = a
    /\ ref_index = build_ref_index(listing)
    /\ ref_files = files
    /\ tiles_dir = dir
    /\ tile_iter = dir
    /\ tile_path = None
    /\ last = None
    /\ tile_row = None
    /\ tile_col = None
    /\ base_frame = None
    /\ ref_jpg = None
    /\ processed = 0
    /\ skipped = 0
    /\ no_ref = 0
    /\ bad_ref = 0
    /\ ref_cache = [q \in {} |-> 0]
    /\ heap = <<>>
    /\ out_aux = [q \in {} |-> 0]
    /\ used_ref = [q \in {} |-> 0]
    /\ parse_count = [i \in {listing[k] : k \in 1..Len(listing)} |-> 0]
    /\ xml_in = None
    /\ xml_out = None
    /\ label_file = None
    /\ img_size = None
    /\ boxes = <<>>

\* --- a run over a directory of several tiles --------------------------

RunListing == <<RefPath(<<"a">> \o JPG), RefPath(<<"b">> \o JPG), RefPath(<<"c">> \o JPG)>>

\* a.jpg has a good sidecar, b.jpg a broken one, c.jpg none
RunSidecars ==
    {<<g, b>> \in GoodDocs \X BrokenDocs :
        g = DocOf("PAMDataset", <<Element("SRS", <<"w">>), Element("GeoTransform", GtPlain),
                                  Element("Metadata", <<"m">>)>>)
        \/ b = <<>>}

RunFiles ==
    {[q \in {RunListing[k] : k \in 1..Len(RunListing)} |->
        IF q = RunListing[1] THEN [exists |-> TRUE, doc |-> gb[1]]
        ELSE IF q = RunListing[2] THEN [exists |-> TRUE, doc |-> gb[2]]
        ELSE [exists |-> FALSE, doc |-> <<>>]] : gb \in RunSidecars}

RunTiles ==
    {Tile(<<"a">> \o JPG \o <<"_", "7", "_", "1", "_", "2">>, TRUE, TRUE, TRUE),
     Tile(<<"a">> \o JPG \o <<"_", "7", "_", "0", "_", "3">>, TRUE, TRUE, TRUE),
     Tile(<<"a">> \o JPG \o <<"_", "7", "_", "2", "_", "1">>, TRUE, TRUE, FALSE),
     Tile(<<"a">> \o JPG \o <<"_", "7", "_", "1", "_", "1">>, TRUE, FALSE, TRUE),
     Tile(<<"a">> \o JPG \o <<"_", "7", "_", "5", "_", "5">>, FALSE, TRUE, TRUE),
     Tile(<<"b">> \o JPG \o <<"_", "1", "_", "1">>, TRUE, TRUE, TRUE),
     Tile(<<"b">> \o JPG \o <<"_", "2", "_", "0">>, TRUE, TRUE, TRUE),
     Tile(<<"c">> \o JPG \o <<"_", "0", "_", "0">>, TRUE, TRUE, TRUE),
     Tile(<<"d">> \o JPG \o <<"_", "0", "_", "1">>, TRUE, TRUE, TRUE),
     Tile(<<"a">> \o JPG, TRUE, TRUE, TRUE),
     Tile(<<"x", "_", "1", "_", "2">>, TRUE, TRUE, TRUE)}

Init ==
    \E a \in ArgsSet, files \in RunFiles,
       dir \in {d \in SUBSET RunTiles : Cardinality(d) <= MaxTiles} :
        InitMain(a, RunListing, files, dir)

Spec == Init /\ [][Next]_vars

\* --- one tile whose name is put together from parts -------------------

NamePrefixes ==
    {<<>>, <<"0", "0", "b", "B", "8", "8", "e", "a", "-">>,
     <<"0", "0", "b", "B", "8", "8", "e", "x", "-">>}

NameBases == {<<>>, <<"a">>, <<"A", "b">>, <<"x", NL, "a">>}

NameTokens ==
    {<<>>, JPG, <<".", "J", "P", "E", "G">>, JPG \o <<"b">> \o JPG,
     JPG \o <<"_", "b", ".", "j", "p", "e", "g">>}

NameFrames == {<<>>, <<"_", "7">>}

NameTails ==
    {<<>>, <<"_", "1", "_", "2">>, <<"_", "1", "0", "_", "0", "3">>,
     <<"_", "1", "_", "2", NL>>, <<"_", "1", "_", "2", "x">>, <<"_", "_", "2">>}

NameStems ==
    {p \o b \o k \o f \o t :
        p \in NamePrefixes, b \in NameBases, k \in NameTokens, f \in NameFrames, t \in NameTails}

NamesListing == <<RefPath(<<"a">> \o JPG), RefPath(<<"a", ".", "j", "p", "g", "b", "_", "7">> \o JPG)>>

NamesFiles ==
    [q \in {NamesListing[k] : k \in 1..Len(NamesListing)} |->
        [exists |-> TRUE,
         doc |-> DocOf("PAMDataset", <<Element("GeoTransform", GtPlain)>>)]]

InitNames ==
    \E a \in ArgsSet, stem \in NameStems :
        InitMain(a, NamesListing, NamesFiles, {Tile(stem, TRUE, TRUE, TRUE)})

SpecNames == InitNames /\ [][Next]_vars

\* --- one tile against a directory of references -----------------------

RefNames ==
    {<<"a">> \o JPG, <<"A">> \o JPG, <<"a", ".", "j", "p", "e", "g">>,
     <<"a", "_", "7">> \o JPG, <<"A", "-", "7", ".", "J", "P", "E", "G">>,
     <<"a", "7", "b">> \o JPG, <<"a", "b", "7">> \o JPG, <<"a", "b", "c">> \o JPG,
     <<"a", "7", "7", "b">> \o JPG, <<"b", "7">> \o JPG}

RefListings ==
    {l \in SeqsUpTo({RefPath(n) : n \in RefNames}, MaxRefs) : Len(l) >= 1 /\ Distinct(l)}

RefsTiles ==
    {Tile(<<"a">> \o JPG \o <<"_", "7", "_", "1", "_", "2">>, TRUE, TRUE, TRUE),
     Tile(<<"A", ".", "J", "P", "G", "x", "_", "1", "_", "2">>, TRUE, TRUE, TRUE),
     Tile(<<"a", "b">> \o JPG \o <<"_", "7", "_", "1", "_", "2">>, TRUE, TRUE, TRUE)}

InitRefs ==
    \E l \in RefListings, t \in RefsTiles :
        InitMain([tile_size |-> 3, stride |-> None, swap_rowcol |-> FALSE], l,
                 [q \in {l[k] : k \in 1..Len(l)} |->
                     [exists |-> TRUE,
                      doc |-> DocOf("PAMDataset", <<Element("GeoTransform", GtPlain)>>)]],
                 {t})

SpecRefs == InitRefs /\ [][Next]_vars

\* --- a call of update_geotransform_in_auxxml --------------------------

\* main is not running: its variables stay as they are here
MainIdle ==
    /\ exit_code = None
    /\ args = [tile_size |-> 3, stride |-> None, swap_rowcol |-> FALSE]
    /\ ref_index = <<>>
    /\ ref_files = [q \in {} |-> 0]
    /\ tiles_dir = {}
    /\ tile_iter = {}
    /\ tile_path = None
    /\ last = None
    /\ tile_row = None
    /\ tile_col = None
    /\ base_frame = None
    /\ ref_jpg = None
    /\ processed = 0
    /\ skipped = 0
    /\ no_ref = 0
    /\ bad_ref = 0
    /\ ref_cache = [q \in {} |-> 0]
    /\ heap = <<>>
    /\ out_aux = [q \in {} |-> 0]
    /\ used_ref = [q \in {} |-> 0]
    /\ parse_count = [q \in {} |-> 0]

XmlElements ==
    {Element("SRS", <<"w">>), Element("GeoTransform", GtPlain),
     Element("GeoTransform", <<>>), Element("Metadata", <<"m">>)}

XmlTransforms == {<<10, 2, -1, 20, 3, -2>>, <<0, 1, 0, -5, 0, -1>>}

InitXml ==
    /\ MainIdle
    /\ pc = "call"
    /\ \E children \in SeqsUpTo(XmlElements, MaxChildren), gt \in XmlTransforms :
          xml_in = Some([tree |-> [tag |-> "PAMDataset", children |-> children], gt |-> gt])
    /\ xml_out = None
    /\ label_file = None
    /\ img_size = None
    /\ boxes = <<>>

SpecXml == InitXml /\ [][NextXml]_vars

\* --- a call of load_yolo_annotations ----------------------------------

LabelLines ==
    {<<"0", " ", "0", ".", "5", " ", "0", ".", "5", " ", "0", ".", "2", " ", "0", ".", "1">>,
     <<"1", " ", "0", ".", "2", "5", " ", "0", ".", "7", "5", " ", "1", " ", "0", ".", "3", NL>>,
     <<" ", NL>>,
     <<"0", " ", "0", ".", "5", " ", "0", ".", "5", " ", "0", ".", "2">>,
     <<"x", " ", "0", ".", "5", " ", "0", ".", "5", " ", "0", ".", "2", " ", "0", ".", "1">>}

ImageSizes == {<<1000, 800>>, <<640, 480>>, <<3, 5>>}

InitYolo ==
    /\ MainIdle
    /\ pc = "call"
    /\ xml_in = None
    /\ xml_out = None
    /\ label_file \in {None} \cup {Some(f) : f \in SeqsUpTo(LabelLines, MaxLines)}
    /\ img_size \in {Some(z) : z \in ImageSizes}
    /\ boxes = <<>>

SpecYolo == InitYolo /\ [][NextYolo]_vars

\* ------------------------------------------------------------------------
\* Properties
\* ------------------------------------------------------------------------

\* the text of a document's first GeoTransform element, and its six values
GtTextOfDoc(doc) ==
    LET tree == fromstring(doc) IN tree.children[The(Find(tree, "GeoTransform"))].text

GtOfDoc(doc) == The(parse_geotransform_text(GtTextOfDoc(doc)))

\* the entries the loop has yielded that are regular files
Visited == {t \in tiles_dir \ tile_iter : t.is_file}

\* the tile of the latest iteration, when its sidecar was written
WrittenNow == {t \in tile_path : t \in DOMAIN out_aux}

\* C1: the transform written for a tile with row r, column k and stride s
\* (--stride, or --tile-size without it) has the translation terms
\* X + k*s*a + r*s*b and Y + k*s*d + r*s*e and the reference's a, b, d, e.
C1_ShiftedTransform ==
    \A t \in WrittenNow :
        LET ref == GtOfDoc(ref_files[used_ref[t]].doc)
            X == ref[1]
            a == ref[2]
            b == ref[3]
            Y == ref[4]
            d == ref[5]
            e == ref[6]
            r == The(tile_row)
            k == The(tile_col)
            s == IF args.stride = None THEN args.tile_size ELSE The(args.stride)
        IN  GtOfDoc(out_aux[t]) = <<X + k * s * a + r * s * b, a, b,
                                    Y + k * s * d + r * s * e, d, e>>

\* C1's case: a tile off the origin in both directions, an explicit stride
\* and a reference transform whose four coefficients are all non-zero
C1_Witness ==
    \E t \in WrittenNow :
        /\ The(tile_row) > 0 /\ The(tile_col) > 0 /\ The(tile_row) # The(tile_col)
        /\ args.stride # None /\ The(args.stride) # args.tile_size
        /\ \A i \in {2, 3, 5, 6} : GtOfDoc(ref_files[used_ref[t]].doc)[i] # 0

\* the (row, column) a tile's name gives under the run's arguments
RowColOf(t) ==
    LET ab == The(parse_last_two(t.stem)) IN
    IF args.swap_rowcol THEN <<ab[2], ab[1]>> ELSE ab

\* the sidecar of tile t as a function of the tile, the arguments and the
\* reference's file alone: the reference's document with the text of its
\* first GeoTransform element replaced
SidecarFor(t, path) ==
    LET doc == ref_files[path].doc
        ref == GtOfDoc(doc)
        g   == The(Find(fromstring(doc), "GeoTransform"))
        s   == Stride(args)
        rc  == RowColOf(t)
        gt  == <<ref[1] + rc[2] * s * ref[2] + rc[1] * s * ref[3], ref[2], ref[3],
                 ref[4] + rc[2] * s * ref[5] + rc[1] * s * ref[6], ref[5], ref[6]>>
    IN  [i \in 1..Len(doc) |-> IF i = 2 * g + 1 THEN format_geotransform(gt) ELSE doc[i]]

\* two documents that differ at most in the translation terms of the text
\* of their first GeoTransform element
SameButTranslation(d1, d2) ==
    LET g == The(Find(fromstring(d1), "GeoTransform")) IN
    /\ Len(d1) = Len(d2)
    /\ \A i \in 1..Len(d1) : i # 2 * g + 1 => d1[i] = d2[i]
    /\ Find(fromstring(d2), "GeoTransform") = Some(g)
    /\ \A i \in {2, 3, 5, 6} : GtOfDoc(d1)[i] = GtOfDoc(d2)[i]

\* C2: whatever tiles were processed, the cached template and transform of
\* a reference are what its .aux.xml holds; a tile's sidecar is a function of
\* the tile and the reference file alone; two tiles of one reference get
\* sidecars that differ only in the translation terms.
C2_TemplateNeverMutated ==
    /\ \A path \in DOMAIN ref_cache :
          /\ heap[ref_cache[path].tree] = fromstring(ref_files[path].doc)
          /\ ref_cache[path].gt = GtOfDoc(ref_files[path].doc)
    /\ \A t \in DOMAIN out_aux : out_aux[t] = SidecarFor(t, used_ref[t])
    /\ \A t1, t2 \in DOMAIN out_aux :
          used_ref[t1] = used_ref[t2] => SameButTranslation(out_aux[t1], out_aux[t2])

\* C2's case: two sidecars written from one reference, with different text
C2_Witness ==
    \E t1, t2 \in DOMAIN out_aux :
        /\ t1 # t2
        /\ used_ref[t1] = used_ref[t2]
        /\ out_aux[t1] # out_aux[t2]
        /\ out_aux[t1] # ref_files[used_ref[t1]].doc

\* C3: every reference's .aux.xml is read and parsed at most once in a run,
\* whatever it holds.
C3_ParsedAtMostOnce == \A path \in DOMAIN parse_count : parse_count[path] <= 1

\* C4: no failure while handling a tile aborts the run: when the loop has
\* ended, the summary was printed and the exit code is 0.
C4_RunAlwaysCompletes == pc # "loop" => (pc = "done" /\ exit_code = Some(0))

\* C10 in a state: every regular file visited incremented exactly one counter,
\* and the sidecars written are those of the tiles counted as processed
CountersAccount ==
    /\ processed + skipped + no_ref + bad_ref = Cardinality(Visited)
    /\ Cardinality(DOMAIN out_aux) = processed
    /\ DOMAIN out_aux \subseteq Visited

\* C10: at every point of the loop the four counters add up to the number of
\* regular files visited, a sidecar is written iff its tile was counted as
\* processed, and no counter ever decreases.
C10_CountersAccount ==
    [][/\ CountersAccount'
       /\ processed' >= processed /\ skipped' >= skipped
       /\ no_ref' >= no_ref /\ bad_ref' >= bad_ref]_vars

\* ---- the filename parser and the reference resolver ----------------------

\* the step is the loop's iteration for the regular file t
Handles(t) == t \in tile_iter /\ tile_iter' = tile_iter \ {t} /\ t.is_file

\* the iteration counted the tile as c and wrote nothing
CountedOnlyAs(c) ==
    /\ processed' = processed
    /\ skipped' = skipped + (IF c = "skipped" THEN 1 ELSE 0)
    /\ no_ref' = no_ref + (IF c = "no_ref" THEN 1 ELSE 0)
    /\ bad_ref' = bad_ref
    /\ out_aux' = out_aux

\* the candidate names of the claim, in its order
ExactNames(base, frame) ==
    IF frame = None
    THEN << base \o <<".", "j", "p", "g">>, base \o <<".", "j", "p", "e", "g">> >>
    ELSE << base \o <<".", "j", "p", "g">>, base \o <<".", "j", "p", "e", "g">>,
            base \o <<"_">> \o The(frame) \o <<".", "j", "p", "g">>,
            base \o <<"_">> \o The(frame) \o <<".", "j", "p", "e", "g">>,
            base \o <<"-">> \o The(frame) \o <<".", "j", "p", "g">>,
            base \o <<"-">> \o The(frame) \o <<".", "j", "p", "e", "g">> >>

\* the entries of index whose name is `name`, letter case ignored
EntriesNamed(index, name) == {i \in 1..Len(index) : index[i].key = Lower(name)}

\* the positions of the exact candidates that are in the index
ExactHits(index, base, frame) ==
    {c \in 1..Len(ExactNames(base, frame)) :
        EntriesNamed(index, ExactNames(base, frame)[c]) # {}}

\* the entries whose name starts with base and contains frame (when given)
LooseHits(index, base, frame) ==
    {i \in 1..Len(index) :
        /\ StartsWith(index[i].key, Lower(base))
        /\ frame # None => Contains(index[i].key, Lower(The(frame)))}

\* what C5 says of the result ref for (base, frame), but for when it is None
ChoosesAsClaimed(index, base, frame, ref) ==
    LET ex == ExactHits(index, base, frame)
        lo == LooseHits(index, base, frame)
    IN  /\ ex # {} =>
              \E i \in EntriesNamed(index, ExactNames(base, frame)[Min(ex)]) :
                  ref = Some(index[i].path)
        /\ (ex = {} /\ lo # {}) =>
              \E i \in lo : /\ ref = Some(index[i].path)
                            /\ \A j \in lo : Len(index[i].key) <= Len(index[j].key)

\* C5 as stated: the first exact candidate in the index, else a shortest name
\* that starts with base and contains frame; no match exactly when no indexed
\* name starts with base and contains frame, and then the tile is counted as
\* no_ref and gets no sidecar.
C5_AsStated ==
    [][\A t \in tile_iter :
          (Handles(t) /\ last' # None /\ base_frame' # None) =>
              LET base  == The(base_frame')[1]
                  frame == The(base_frame')[2]
              IN  /\ ChoosesAsClaimed(ref_index, base, frame, ref_jpg')
                  /\ ref_jpg' = None <=> LooseHits(ref_index, base, frame) = {}
                  /\ ref_jpg' = None => CountedOnlyAs("no_ref")]_vars

\* C5 amended: as stated, but no match exactly when no exact candidate is in
\* the index and no indexed name starts with base and contains frame.
C5_ChooseReference ==
    [][\A t \in tile_iter :
          (Handles(t) /\ last' # None /\ base_frame' # None) =>
              LET base  == The(base_frame')[1]
                  frame == The(base_frame')[2]
              IN  /\ ChoosesAsClaimed(ref_index, base, frame, ref_jpg')
                  /\ ref_jpg' = None <=> (/\ ExactHits(ref_index, base, frame) = {}
                                          /\ LooseHits(ref_index, base, frame) = {})
                  /\ ref_jpg' = None => CountedOnlyAs("no_ref")]_vars

\* C5's case: no exact candidate is indexed, two names of different lengths
\* start with base and contain frame, the longer one first in the index, and
\* the shorter one was chosen
C5_Witness ==
    \E t \in tile_path :
        /\ t.is_file /\ last # None /\ base_frame # None
        /\ ExactHits(ref_index, The(base_frame)[1], The(base_frame)[2]) = {}
        /\ The(base_frame)[2] # None
        /\ \E i, j \in LooseHits(ref_index, The(base_frame)[1], The(base_frame)[2]) :
              /\ i < j
              /\ Len(ref_index[j].key) < Len(ref_index[i].key)
              /\ ref_jpg = Some(ref_index[j].path)

\* an image extension token stands at position p of n; its length
TokenLen(n, p) ==
    IF LitAtCI(n, p, <<".", "j", "p", "g">>) THEN 4
    ELSE IF LitAtCI(n, p, <<".", "j", "p", "e", "g">>) THEN 5
    ELSE 0

Tokens(n) == {p \in 1..Len(n) : TokenLen(n, p) > 0}

FrameEnd(n, p) ==
    LET u == p + TokenLen(n, p) IN
    {e \in (u + 1)..(Len(n) - 1) :
        n[u] = "_" /\ AllDigits(n, u + 1, e) /\ n[e + 1] = "_"}

\* a token with at least one character before it on its line
Preceded(n) == {p \in Tokens(n) : p > 1 /\ n[p - 1] # NL}

\* where the line of position p starts
LineStart(n, p) == Max({0} \cup {k \in 1..(p - 1) : n[k] = NL}) + 1

TailSplits(stem) ==
    {ij \in (1..Len(stem)) \X (1..Len(stem)) :
        /\ stem[ij[1]] = "_"
        /\ AllDigits(stem, ij[1] + 1, ij[2] - 1)
        /\ stem[ij[2]] = "_"
        /\ AllDigits(stem, ij[2] + 1, Len(stem))}

\* the number a digit string denotes
RECURSIVE Denotes(_)
Denotes(ds) ==
    IF Len(ds) = 0 THEN 0
    ELSE DigitVal(ds[1]) * 10 ^ (Len(ds) - 1) + Denotes(Tail(ds))

\* C7: parse_last_two yields a pair exactly when the stem ends with _A_B, and
\* then the numbers A and B denote; the run takes them as (row, column), or
\* (column, row) under --swap-rowcol; a stem that does not match is counted
\* as skipped only and gets no sidecar.
C7_ParseLastTwo ==
    [][\A t \in tile_iter :
          Handles(t) =>
              /\ last' # None <=> TailSplits(t.stem) # {}
              /\ last' # None =>
                    \E ij \in TailSplits(t.stem) :
                        LET A == Denotes(Slice(t.stem, ij[1] + 1, ij[2] - 1))
                            B == Denotes(Slice(t.stem, ij[2] + 1, Len(t.stem)))
                        IN  /\ last' = Some(<<A, B>>)
                            /\ tile_row' = Some(IF args.swap_rowcol THEN B ELSE A)
                            /\ tile_col' = Some(IF args.swap_rowcol THEN A ELSE B)
              /\ last' = None => CountedOnlyAs("skipped")]_vars

\* ---- update_geotransform_in_auxxml --------------------------------------

\* C8: the call leaves a GeoTransform child with the formatted text of the
\* transform and changes nothing else: an existing element only has its text
\* replaced; a missing one is inserted right after the SRS child, or first
\* when there is no SRS child, and every other element keeps content and order.
C8_UpdateFrame ==
    pc = "returned" /\ xml_out # None =>
        LET T    == The(xml_in).tree.children
            O    == The(xml_out).children
            el   == [tag |-> "GeoTransform", text |-> format_geotransform(The(xml_in).gt)]
            had  == {i \in 1..Len(T) : T[i].tag = "GeoTransform"}
            srs  == {i \in 1..Len(T) : T[i].tag = "SRS"}
        IN  /\ The(xml_out).tag = The(xml_in).tree.tag
            /\ \E i \in 1..Len(O) : O[i] = el
            /\ had # {} =>
                  /\ Len(O) = Len(T)
                  /\ O[Min(had)] = el
                  /\ \A i \in 1..Len(T) : i # Min(had) => O[i] = T[i]
            /\ had = {} =>
                  LET at == IF srs # {} THEN Min(srs) + 1 ELSE 1 IN
                  /\ Len(O) = Len(T) + 1
                  /\ O[at] = el
                  /\ \A i \in 1..Len(T) : O[IF i < at THEN i ELSE i + 1] = T[i]

\* C8's case: the tree had no GeoTransform, and an SRS child with elements
\* before and after it
C8_Witness ==
    /\ pc = "returned" /\ xml_out # None
    /\ LET T == The(xml_in).tree.children IN
       /\ \A i \in 1..Len(T) : T[i].tag # "GeoTransform"
       /\ Len(T) = 3 /\ T[2].tag = "SRS" /\ T[1].tag # "SRS"
       /\ The(xml_out).children[3].tag = "GeoTransform"

\* ---- load_yolo_annotations -----------------------------------------------

ExampleLine ==
    <<"0", " ", "0", ".", "5", " ", "0", ".", "5", " ", "0", ".", "2", " ", "0", ".", "1">>

HasFiveFields(line) == Len(SplitSpace(line)) = 5

\* each line `class xc yc w h` became the top-left rectangle of the box
\* centred at (xc*W, yc*H) with size (w*W, h*H)
BoxesAreTopLeftRectangles ==
    LET W     == The(img_size)[1]
        H     == The(img_size)[2]
        lines == IF label_file = None THEN <<>> ELSE SelectSeq(The(label_file), HasFiveFields)
    IN  /\ Len(boxes) = Len(lines)
        /\ \A k \in 1..Len(lines) :
              LET f == SplitSpace(lines[k]) IN
              /\ boxes[k][1] = Denotes(f[1])
              /\ boxes[k][4] = DecimalOf(f[4]) * W
              /\ boxes[k][5] = DecimalOf(f[5]) * H
              /\ 2 * boxes[k][2] + boxes[k][4] = 2 * DecimalOf(f[2]) * W
              /\ 2 * boxes[k][3] + boxes[k][5] = 2 * DecimalOf(f[3]) * H

IsExampleCall == label_file = Some(<<ExampleLine>>) /\ img_size = Some(<<1000, 800>>)

\* C9 as stated: the conversion above, and for xc=0.5, yc=0.5, w=0.2, h=0.1
\* on a 1000x800 image the box x_min=400, y_min=380, width=200, height=80.
C9_AsStated ==
    pc = "returned" /\ img_size # None =>
        /\ BoxesAreTopLeftRectangles
        /\ IsExampleCall =>
              boxes = << <<0, Fixed(400), Fixed(380), Fixed(200), Fixed(80)>> >>

\* C9 amended: the conversion above, and for the example the box x_min=400,
\* y_min=360, width=200, height=80.
C9_BoxConversion ==
    pc = "returned" /\ img_size # None =>
        /\ BoxesAreTopLeftRectangles
        /\ IsExampleCall =>
              boxes = << <<0, Fixed(400), Fixed(360), Fixed(200), Fixed(80)>> >>

\* C9's case: the example line was read on the 1000x800 image
C9_Witness == pc = "returned" /\ IsExampleCall /\ Len(boxes) = 1

====
